---- MODULE Spec2Model ----
(***************************************************************************)
(* Model of the dynamic schema inference and incremental ingestion engine  *)
(* of upload_functions.py: safe_convert_for_mysql, get_mysql_type,         *)
(* create_mysql_connection and insert_database, run against one MySQL      *)
(* table, and the reader flatten_json_to_dataframe.                        *)
(*                                                                         *)
(* Representation of pandas values (one tuple per cell):                   *)
(*   <<"na">>                 None / NaN / NaT / pd.NA                     *)
(*   <<"int", hi, lo>>        the integer hi * 65536 + lo, 0 <= lo < 65536 *)
(*                            (two limbs, so that 2^31 and above exist)    *)
(*   <<"float", hi, lo, fr>>  the float (hi * 65536 + lo) + fr / 10        *)
(*   <<"floatE", e>>          the float 10^e, e >= 19: a whole number      *)
(*                            outside the range of a 64-bit integer        *)
(*   <<"bool", b>>            True / False                                 *)
(*   <<"str", label, len>>    a string, its text and its length; label is  *)
(*                            <<"lit", s>> for the text s, <<"repr", v>>   *)
(*                            for the text str(v) of a non-string value v  *)
(*   <<"ts", label>>          a timestamp, label is its rendering in       *)
(*                            the format %Y-%m-%d %H:%M:%S                 *)
(*   <<"td", secs>>           a timedelta of secs seconds                  *)
(*   <<"list", label, len>>   a list/dict/set/tuple whose str() has the    *)
(*                            given label and length                       *)
(* Column names are sequences of one-character strings.                    *)
(***************************************************************************)
EXTENDS Integers, Sequences, FiniteSets, TLC

\* ------------------------------------------------------------------------
\* Values
\* ------------------------------------------------------------------------
NA == <<"na">>

IsNA(v) == v[1] = "na"

\* The integer hi * 65536 + lo.
W(hi, lo) == <<"int", hi, lo>>

\* a <= b on two-limb integers.
IntLeq(a, b) == a[2] < b[2] \/ (a[2] = b[2] /\ a[3] <= b[3])

\* The two-limb integer -a.
IntNeg(a) == IF a[3] = 0 THEN W(0 - a[2], 0) ELSE W(0 - a[2] - 1, 65536 - a[3])

\* |a| on two-limb integers.
IntAbs(a) == IF a[2] < 0 THEN IntNeg(a) ELSE a

\* The present values among values[lo..hi], in order, by halving the range.
RECURSIVE DropNaOver(_, _, _)
DropNaOver(values, lo, hi) ==
    IF lo > hi THEN << >>
    ELSE IF lo = hi THEN (IF IsNA(values[lo]) THEN << >> ELSE <<values[lo]>>)
    ELSE LET mid == (lo + hi) \div 2
         IN  DropNaOver(values, lo, mid) \o DropNaOver(values, mid + 1, hi)

\* Series.dropna(): the present values, in order.
dropna(values) == DropNaOver(values, 1, Len(values))

\* The largest of values[lo..hi] (lo <= hi), by halving the range.
RECURSIVE IntMaxOver(_, _, _)
IntMaxOver(values, lo, hi) ==
    IF lo = hi THEN values[lo]
    ELSE LET mid   == (lo + hi) \div 2
             left  == IntMaxOver(values, lo, mid)
             right == IntMaxOver(values, mid + 1, hi)
         IN  IF IntLeq(left, right) THEN right ELSE left

\* Series.max() of an integer column: the largest present value, pd.NA
\* when no value is present.
SeriesMax(values) ==
    LET present == dropna(values)
    IN  IF Len(present) = 0 THEN NA ELSE IntMaxOver(present, 1, Len(present))

\* Number of decimal digits of the non-negative two-limb integer a.
RECURSIVE Digits(_)
Digits(a) ==
    LET qhi == a[2] \div 10
        rem == (a[2] % 10) * 65536 + a[3]
        q   == W(qhi + (rem \div 10) \div 65536, (rem \div 10) % 65536)
    IN  IF a[2] = 0 /\ a[3] < 10 THEN 1 ELSE 1 + Digits(q)

\* len(str(v)) for an integer.
IntStrLen(a) == IF a[2] < 0 THEN 1 + Digits(IntNeg(a)) ELSE Digits(a)

\* str(v): the text pandas' astype(str) / Python's str() gives a cell.
str(v) ==
    CASE v[1] = "str"   -> v
      [] v[1] = "na"    -> <<"str", <<"lit", "nan">>, 3>>
      [] v[1] = "int"   -> <<"str", <<"repr", v>>, IntStrLen(v)>>
      [] v[1] = "float" -> <<"str", <<"repr", v>>, IntStrLen(W(v[2], v[3])) + 2>>
      [] v[1] = "floatE" -> <<"str", <<"repr", v>>, 3 + Digits(W(0, v[2]))>>
      [] v[1] = "bool"  -> <<"str", <<"repr", v>>, IF v[2] THEN 4 ELSE 5>>
      [] v[1] = "ts"    -> <<"str", <<"lit", v[2]>>, 19>>
      [] v[1] = "td"    -> <<"str", <<"repr", v>>, 15>>
      [] v[1] = "list"  -> <<"str", v[2], v[3]>>

\* Series.astype(str): every cell, missing ones included, becomes text.
astype_str(values) == [i \in 1..Len(values) |-> str(values[i])]

\* ------------------------------------------------------------------------
\* safe_convert_for_mysql
\* ------------------------------------------------------------------------
\* float.is_integer()
is_integer(v) == IF v[1] = "floatE" THEN TRUE ELSE v[4] = 0

\* Whether the whole float v is a value of int64.
fits_int64(v) == v[1] # "floatE"

\* Series.astype('Int64') of a float column whose present values are whole.
astype_Int64(values) ==
    [i \in 1..Len(values) |->
        IF IsNA(values[i]) THEN NA ELSE W(values[i][2], values[i][3])]

\* The texts that datetime.strptime accepts under "%Y-%m-%d %H:%M:%S", with
\* the timestamp each one denotes (written in that same format).
strptime(s) ==
    CASE s = "2024-01-01 10:00:00" -> <<"ts", "2024-01-01 10:00:00">>
      [] s = "2024-1-5 7:00:00"    -> <<"ts", "2024-01-05 07:00:00">>
      [] OTHER                     -> NA

\* pd.to_datetime(column, format="%Y-%m-%d %H:%M:%S", errors='coerce')
to_datetime(values) ==
    [i \in 1..Len(values) |->
        IF values[i][1] = "ts" THEN values[i]
        ELSE IF values[i][1] = "str" /\ values[i][2][1] = "lit"
             THEN strptime(values[i][2][2])
             ELSE NA]

\* Series.dt.strftime('%Y-%m-%d %H:%M:%S'): NaT stays missing.
strftime(values) ==
    [i \in 1..Len(values) |-> IF IsNA(values[i]) THEN NA ELSE str(values[i])]

\* Whether the try block raises for the column: astype('Int64') (line 56)
\* refuses a float column with a whole value that is no 64-bit integer
\* ("cannot safely cast non-equivalent float64 to int64").
conversion_raises(column) ==
    LET sample == dropna(column.values)
    IN  /\ Len(sample) > 0
        /\ column.dtype = "float64"
        /\ \A i \in 1..Len(sample) : is_integer(sample[i])
        /\ \E i \in 1..Len(sample) : ~fits_int64(sample[i])

\* except_fallback as a handler that prints the warning and leaves the
\* column as it is.
except_fallback_unchanged(column) == column

\* The except clause of the loop (lines 74-76): the whole column becomes
\* text, missing cells included.
except_fallback(column) ==
    [column EXCEPT !.dtype = "object", !.values = astype_str(column.values)]

\* The body of the try block for one column (upload_functions.py 46-73),
\* for a column on which it does not raise.
convert_column(column) ==
    LET values == column.values
        sample == dropna(values)
        dtype  == column.dtype
        asText == [column EXCEPT !.dtype = "object", !.values = astype_str(values)]
    IN  IF Len(sample) = 0 THEN asText
        ELSE CASE dtype = "float64" ->
                    IF \A i \in 1..Len(sample) : is_integer(sample[i])
                    THEN [column EXCEPT !.dtype = "Int64",
                                        !.values = astype_Int64(values)]
                    ELSE column
               [] dtype = "category" -> asText
               [] dtype = "object" ->
                    LET flat == IF sample[1][1] = "list"
                                THEN [i \in 1..Len(values) |->
                                        IF IsNA(values[i]) THEN NA ELSE str(values[i])]
                                ELSE values
                        converted_col == to_datetime(flat)
                    IN  IF Len(dropna(converted_col)) > 0
                        THEN [column EXCEPT !.values = strftime(converted_col)]
                        ELSE [column EXCEPT !.values = astype_str(flat)]
               [] dtype = "datetime64" ->
                    [column EXCEPT !.dtype = "object", !.values = strftime(values)]
               [] dtype = "timedelta64" ->
                    [column EXCEPT !.dtype = "object",
                                   !.values = [i \in 1..Len(values) |->
                                        IF IsNA(values[i]) THEN NA ELSE str(values[i])]]
               [] OTHER -> column

\* safe_convert_for_mysql(df): every column converted, in column order.
safe_convert_for_mysql(df) ==
    [c \in 1..Len(df) |->
        IF conversion_raises(df[c]) THEN except_fallback(df[c])
        ELSE convert_column(df[c])]

\* ------------------------------------------------------------------------
\* get_mysql_type
\* ------------------------------------------------------------------------
\* .astype(str).str.len().max() over values[lo..hi] (lo <= hi).
RECURSIVE MaxLenOver(_, _, _)
MaxLenOver(values, lo, hi) ==
    IF lo = hi THEN str(values[lo])[3]
    ELSE LET mid   == (lo + hi) \div 2
             left  == MaxLenOver(values, lo, mid)
             right == MaxLenOver(values, mid + 1, hi)
         IN  IF left <= right THEN right ELSE left

\* get_mysql_type(pandas_dtype, column_values); "TypeError" stands for the
\* exception raised by `if max_val <= 127` when max_val is pd.NA.
get_mysql_type(pandas_dtype, column_values) ==
    CASE pandas_dtype = "datetime64" -> "DATETIME"
      [] pandas_dtype = "bool" -> "TINYINT(1)"
      [] pandas_dtype \in {"int64", "Int64"} ->
            LET max_val == IF Len(column_values) > 0
                           THEN SeriesMax(column_values) ELSE W(0, 0)
            IN  IF IsNA(max_val) THEN "TypeError"
                ELSE IF IntLeq(max_val, W(0, 127)) THEN "TINYINT"
                ELSE IF IntLeq(max_val, W(0, 32767)) THEN "SMALLINT"
                ELSE IF IntLeq(max_val, W(127, 65535)) THEN "MEDIUMINT"
                ELSE IF IntLeq(max_val, W(32767, 65535)) THEN "INT"
                ELSE "BIGINT"
      [] pandas_dtype = "float64" -> "DOUBLE"
      [] OTHER ->
            LET non_null_values == dropna(column_values)
            IN  IF Len(non_null_values) > 0
                THEN LET max_length == MaxLenOver(non_null_values, 1, Len(non_null_values))
                     IN  IF max_length <= 65535 THEN "TEXT"
                         ELSE IF max_length <= 16777215 THEN "MEDIUMTEXT"
                         ELSE "LONGTEXT"
                ELSE "VARCHAR(255)"

\* ------------------------------------------------------------------------
\* Column identifiers
\* ------------------------------------------------------------------------
\* str.replace(old, new) for a one-character old.
replace(s, old, new) == [i \in 1..Len(s) |-> IF s[i] = old THEN new ELSE s[i]]

\* sanitize with the dashes replaced first and the spaces written as
\* dashes.
sanitize_dashed(col) ==
    replace(replace(replace(col, "-", "_"), " ", "-"), ".", "_")

\* col.replace(' ', '_').replace('-', '_').replace('.', '_')
sanitize(col) == replace(replace(replace(col, " ", "_"), "-", "_"), ".", "_")

\* str.lower() of one character (the letters the pattern needs).
lower(ch) ==
    CASE ch = "U" -> "u" [] ch = "N" -> "n" [] ch = "A" -> "a"
      [] ch = "M" -> "m" [] ch = "E" -> "e" [] ch = "D" -> "d"
      [] OTHER -> ch

\* df.columns.str.contains('unnamed', case=False) for one name.
contains_unnamed(name) ==
    LET pat == <<"u", "n", "n", "a", "m", "e", "d">>
    IN  \E k \in 0..(Len(name) - Len(pat)) :
            \A j \in 1..Len(pat) : lower(name[k + j]) = pat[j]

\* df.drop(<the unnamed columns>, axis=1)
RECURSIVE drop_unnamed(_)
drop_unnamed(frame) ==
    IF Len(frame) = 0 THEN << >>
    ELSE (IF contains_unnamed(frame[1].name) THEN << >> ELSE <<frame[1]>>)
         \o drop_unnamed(Tail(frame))

\* The reserved identifiers of the CREATE TABLE statement.
id == <<"i", "d">>

created_at == <<"c", "r", "e", "a", "t", "e", "d", "_", "a", "t">>

\* ------------------------------------------------------------------------
\* Bounds and inputs
\* ------------------------------------------------------------------------
\* Number of calls of insert_database in one behaviour.
MaxRuns == 2

\* batch_size of insert_database.
batch_size == 1000

Column(name, dtype, values) == [name |-> name, dtype |-> dtype, values |-> values]

\* The values 1, 2, ..., n of an integer column.
serial(n) == [i \in 1..n |-> W(0, i)]

text(s, n) == <<"str", <<"lit", s>>, n>>

col_a == <<"a">>

col_b_space_c == <<"b", " ", "c">>

col_b_c == <<"b", "_", "c">>

col_d_dot_e == <<"d", ".", "e">>

col_unnamed == <<"U", "n", "n", "a", "m", "e", "d", ":", " ", "0">>

\* The data frames passed to insert_database when the schema is exercised:
\* few rows, columns of several dtypes and names.
Datasets ==
    << \* 1: one integer column, one row
       << Column(col_a, "int64", <<W(0, 5)>>) >>,
       \* 2: the same column name with values that need a wider type
       << Column(col_a, "int64", <<W(0, 128), W(-1, 65336)>>) >>,
       \* 3: the same column name holding text
       << Column(col_a, "object", <<text("Milk", 4), NA>>) >>,
       \* 4: a second column, whole-valued floats with a missing entry
       << Column(col_a, "int64", <<W(0, 1), W(0, 2)>>),
          Column(col_b_space_c, "float64", <<<<"float", 0, 2, 0>>, NA>>) >>,
       \* 5: two names with the same sanitized identifier
       << Column(col_a, "int64", <<W(0, 7)>>),
          Column(col_b_space_c, "object", <<text("2024-1-5 7:00:00", 16)>>),
          Column(col_b_c, "float64", <<<<"float", 0, 2, 5>>>>) >>,
       \* 6: a column named id
       << Column(id, "int64", <<W(0, 9)>>),
          Column(col_a, "int64", <<W(0, 3)>>) >>,
       \* 7: an index column left by the reader, and a dotted name
       << Column(col_unnamed, "int64", <<W(0, 0)>>),
          Column(col_a, "bool", <<<<"bool", TRUE>>>>),
          Column(col_d_dot_e, "datetime64", <<<<"ts", "2024-01-01 10:00:00">>>>) >>,
       \* 8: no column and no row
       << >>,
       \* 9: one integer column and no row
       << Column(col_a, "int64", << >>) >>,
       \* 10: three columns, fractional floats and text
       << Column(col_a, "int64", <<W(0, 4)>>),
          Column(col_b_space_c, "float64", <<<<"float", 0, 2, 5>>>>),
          Column(col_d_dot_e, "object", <<text("Dairy", 5)>>) >>,
       \* 11: whole floats, whole floats beyond 64 bits, timestamps
       << Column(col_a, "float64", <<<<"float", 0, 2, 0>>, NA>>),
          Column(col_b_space_c, "float64", <<<<"floatE", 19>>, NA>>),
          Column(col_d_dot_e, "datetime64",
                 <<<<"ts", "2024-01-01 10:00:00">>, NA>>) >> >>

\* The row counts of the data frames passed to insert_database when the
\* batch loop is exercised.
BatchRowCounts == {0, 1, 1000, 1001, 2500}

\* The data frame of one integer column and n rows.
BatchDataset(n) == << Column(col_a, "int64", serial(n)) >>

\* ------------------------------------------------------------------------
\* The store and one run of insert_database
\* ------------------------------------------------------------------------
VARIABLES
    table,              \* the MySQL table: exists, columns, rows
    pc,                 \* position of the run inside insert_database
    data_frame,         \* the argument of the run
    df,                 \* the working copy after drop and conversion
    connection,         \* "none", "open" or "closed"
    existing_columns,   \* the set read by DESCRIBE
    col_i,              \* position of the ALTER loop in df.columns
    start_idx,          \* start_idx of the batch loop
    result,             \* the returned string, as a sequence of tokens
    log,                \* the statements this run sent to the store
    table0,             \* the table when the run started
    runs,               \* number of runs started
    data,               \* the parsed JSON document of flatten_json_to_dataframe
    all_records,        \* its list of flat records
    date_i,             \* position of its loop over data.items()
    product_i,          \* position of its loop over the products of a date
    flattened           \* the data frame it returns

flatten_vars == <<data, all_records, date_i, product_i, flattened>>

vars == <<table, pc, data_frame, df, connection, existing_columns, col_i,
          start_idx, result, log, table0, runs, flatten_vars>>

\* The flattener has not been called.
NoJson ==
    /\ data = << >>
    /\ all_records = << >>
    /\ date_i = 1
    /\ product_i = 1
    /\ flattened = << >>

NoTable == [exists |-> FALSE, columns |-> << >>, rows |-> << >>]

\* len(df)
total_rows(frame) == IF Len(frame) = 0 THEN 0 ELSE Len(frame[1].values)

\* The column list of the INSERT statement (line 170).
insert_columns(frame) == [c \in 1..Len(frame) |-> sanitize(frame[c].name)]

\* tuple(row) for row i of the frame (line 174).
row_values(frame, i) == [c \in 1..Len(frame) |-> frame[c].values[i]]

\* column_definitions of the CREATE TABLE statement (lines 129-133).
column_definitions(frame) ==
    [c \in 1..Len(frame) |->
        [name |-> sanitize(frame[c].name),
         type |-> get_mysql_type(frame[c].dtype, frame[c].values)]]

\* The columns of the table that CREATE TABLE creates (lines 135-141).
create_table_columns(frame) ==
    << [name |-> id, type |-> "INT AUTO_INCREMENT PRIMARY KEY"] >>
    \o column_definitions(frame)
    \o << [name |-> created_at, type |-> "TIMESTAMP DEFAULT CURRENT_TIMESTAMP"] >>

NoDuplicates(names) ==
    \A i, j \in 1..Len(names) : names[i] = names[j] => i = j

ColumnNames(columns) == [c \in 1..Len(columns) |-> columns[c].name]

\* MySQL accepts CREATE TABLE only with a well-formed column list (an empty
\* join gives `, ,`) and no column name twice.
CreateAcceptable(frame) ==
    /\ Len(frame) > 0
    /\ NoDuplicates(ColumnNames(create_table_columns(frame)))

\* MySQL accepts INSERT only if no column is named twice and every named
\* column exists.
InsertAcceptable(frame) ==
    /\ NoDuplicates(insert_columns(frame))
    /\ \A c \in 1..Len(frame) :
          \E k \in 1..Len(table.columns) :
              table.columns[k].name = insert_columns(frame)[c]

\* batch_end with an end index taken as inclusive: a full batch stops one
\* row early.
batch_end_short(start, total) ==
    IF start + batch_size < total THEN start + batch_size - 1 ELSE total

\* end_idx = min(start_idx + batch_size, total_rows) (line 166).
batch_end(start, total) ==
    IF start + batch_size < total THEN start + batch_size ELSE total

\* needs_column without the look-up in the existing columns.
needs_column_unchecked(col_name, existing) ==
    col_name # id /\ col_name # created_at

\* The condition under which the loop appends a column (line 152).
needs_column(col_name, existing) ==
    col_name \notin existing /\ col_name # id /\ col_name # created_at

\* add_column as a statement that also gives the new type to the user
\* columns the table has.
add_column_retyping(columns, column) ==
    [k \in 1..Len(columns) |->
        IF columns[k].name \in {id, created_at} THEN columns[k]
        ELSE [columns[k] EXCEPT !.type = column.type]] \o <<column>>

\* ALTER TABLE ... ADD COLUMN (line 154): the column goes after the last
\* column of the table.
add_column(columns, column) == Append(columns, column)

\* after_connect without the test of the returned connection.
after_connect_unchecked(ok) == "show"

\* Where the run goes when create_mysql_connection has returned (lines
\* 121-122).
after_connect(ok) == IF ok THEN "show" ELSE "returned"

\* rows_of_failed_batch on a connection that commits every statement.
rows_of_failed_batch_kept(data_values) == data_values

\* The rows a batch leaves in the table when executemany or commit raises
\* (lines 176-177): the transaction is never committed.
rows_of_failed_batch(data_values) == << >>

\* after_exception with a handler that swallows a failed schema statement
\* and goes on to the batch loop.
after_exception_continue(stmt) ==
    IF stmt \in {"CREATE", "ALTER"} THEN "insert" ELSE "returned"

\* Where the run goes when a statement raises: the except clause returns
\* (lines 185-187).
after_exception(stmt) == "returned"

\* committed for a run that goes on when only the commit has failed.
committed_unchecked(outcome) == outcome # "rejected"

\* Whether a schema statement and its commit went through, so that the
\* run goes on (lines 142-143 and 155-156).
committed(outcome) == outcome = "ok"

Init ==
    /\ table = NoTable
    /\ pc = "idle"
    /\ data_frame = << >>
    /\ df = << >>
    /\ connection = "none"
    /\ existing_columns = {}
    /\ col_i = 1
    /\ start_idx = 0
    /\ result = << >>
    /\ log = << >>
    /\ table0 = NoTable
    /\ runs = 0
    /\ NoJson

\* The marker glyphs of the messages: the check mark U+2713 and the ballot
\* x U+2717.
success_glyph == "U+2713"

failure_glyph == "U+2717"

\* except Exception as e: return str(e) (lines 185-187).  The connection
\* is left as it is.
Except(stmt) ==
    /\ pc' = after_exception(stmt)
    /\ result' = <<"str(e)", stmt>>

\* The data frame of a call: the k-th of Datasets, or the batch data frame
\* of k rows.
Frame(family, k) == IF family = "schema" THEN Datasets[k] ELSE BatchDataset(k)

\* Lines 116-118: copy, drop the unnamed columns, convert.
Begin(family, k) ==
    /\ pc \in {"idle", "returned"}
    /\ runs < MaxRuns
    /\ runs' = runs + 1
    /\ data_frame' = Frame(family, k)
    /\ df' = safe_convert_for_mysql(drop_unnamed(Frame(family, k)))
    /\ connection' = "none"
    /\ existing_columns' = {}
    /\ col_i' = 1
    /\ start_idx' = 0
    /\ result' = << >>
    /\ log' = << >>
    /\ table0' = table
    /\ pc' = "connect"
    /\ UNCHANGED table
    /\ UNCHANGED flatten_vars

\* Lines 120-122 with create_mysql_connection (lines 24-39): a connection,
\* or None and the early return.
create_mysql_connection ==
    /\ pc = "connect"
    /\ \E ok \in BOOLEAN :
          /\ connection' = IF ok THEN "open" ELSE "none"
          /\ pc' = after_connect(ok)
          /\ result' = IF after_connect(ok) = "returned"
                        THEN <<"Failed to connect to MySQL database">>
                        ELSE result
    /\ UNCHANGED <<table, data_frame, df, existing_columns, col_i, start_idx,
                   log, table0, runs>>
    /\ UNCHANGED flatten_vars

\* Lines 124-128 and 145: SHOW TABLES LIKE, then the branch on table_exists.
show_tables ==
    /\ pc = "show"
    /\ \E ok \in BOOLEAN :
          /\ log' = Append(log, [op |-> "SHOW",
                                 outcome |-> IF ok THEN "ok" ELSE "rejected"])
          /\ IF ok
             THEN /\ pc' = IF table.exists THEN "describe" ELSE "create"
                  /\ UNCHANGED result
             ELSE Except("SHOW")
    /\ UNCHANGED <<table, data_frame, df, connection, existing_columns, col_i,
                   start_idx, table0, runs>>
    /\ UNCHANGED flatten_vars

\* Lines 129-144 and 162-163: build the column definitions, CREATE TABLE,
\* commit.  get_mysql_type may raise before the statement is sent; the
\* store may reject the statement; the commit may fail after the store
\* has created the table (DDL is not transactional in MySQL).
create_table ==
    /\ pc = "create"
    /\ IF \E c \in 1..Len(df) : column_definitions(df)[c].type = "TypeError"
       THEN /\ Except("TypeError")
            /\ UNCHANGED <<table, log>>
       ELSE \E outcome \in {"ok", "rejected", "commit failed"} :
               /\ outcome # "rejected" => CreateAcceptable(df) /\ ~table.exists
               /\ log' = Append(log, [op |-> "CREATE", outcome |-> outcome,
                                      columns |-> column_definitions(df)])
               /\ table' = IF outcome = "rejected" THEN table
                           ELSE [exists |-> TRUE,
                                 columns |-> create_table_columns(df),
                                 rows |-> << >>]
               /\ IF committed(outcome)
                  THEN pc' = "insert" /\ UNCHANGED result
                  ELSE Except("CREATE")
    /\ UNCHANGED <<data_frame, df, connection, existing_columns, col_i,
                   start_idx, table0, runs>>
    /\ UNCHANGED flatten_vars

\* Lines 146-149: DESCRIBE and the set of existing column names.
describe ==
    /\ pc = "describe"
    /\ \E ok \in BOOLEAN :
          /\ log' = Append(log, [op |-> "DESCRIBE",
                                 outcome |-> IF ok THEN "ok" ELSE "rejected"])
          /\ IF ok
             THEN /\ existing_columns' =
                        {table.columns[k].name : k \in 1..Len(table.columns)}
                  /\ pc' = "alter"
                  /\ UNCHANGED result
             ELSE /\ Except("DESCRIBE")
                  /\ UNCHANGED existing_columns
    /\ UNCHANGED <<table, data_frame, df, connection, col_i, start_idx,
                   table0, runs>>
    /\ UNCHANGED flatten_vars

\* Lines 150-157: one iteration of the loop over df.columns; lines 159-163
\* when the loop is over.  The statement is recorded with the position
\* col of the dataset column it was built from.
alter_table ==
    /\ pc = "alter"
    /\ IF col_i > Len(df)
       THEN /\ pc' = "insert"
            /\ UNCHANGED <<table, col_i, result, log>>
       ELSE LET col_name   == sanitize(df[col_i].name)
                mysql_type == get_mysql_type(df[col_i].dtype, df[col_i].values)
            IN  IF needs_column(col_name, existing_columns)
                THEN IF mysql_type = "TypeError"
                     THEN /\ Except("TypeError")
                          /\ UNCHANGED <<table, col_i, log>>
                     ELSE \E outcome \in {"ok", "rejected", "commit failed"} :
                             /\ outcome # "rejected" =>
                                   \A k \in 1..Len(table.columns) :
                                       table.columns[k].name # col_name
                             /\ log' = Append(log,
                                   [op |-> "ALTER", outcome |-> outcome,
                                    col |-> col_i,
                                    columns |-> << [name |-> col_name,
                                                    type |-> mysql_type] >>])
                             /\ table' = IF outcome = "rejected" THEN table
                                   ELSE [table EXCEPT !.columns =
                                           add_column(@, [name |-> col_name,
                                                          type |-> mysql_type])]
                             /\ IF committed(outcome)
                                THEN /\ col_i' = col_i + 1
                                     /\ UNCHANGED <<pc, result>>
                                ELSE /\ Except("ALTER")
                                     /\ UNCHANGED col_i
                ELSE /\ col_i' = col_i + 1
                     /\ UNCHANGED <<table, pc, result, log>>
    /\ UNCHANGED <<data_frame, df, connection, existing_columns, start_idx,
                   table0, runs>>
    /\ UNCHANGED flatten_vars

\* Lines 165-179: one iteration of the batch loop: executemany and commit.
\* A batch that the store rejects, or whose commit fails, leaves no row.
insert_batch ==
    /\ pc = "insert"
    /\ start_idx < total_rows(df)
    /\ LET end_idx == batch_end(start_idx, total_rows(df))
           columns == insert_columns(df)
           data_values == [k \in 1..(end_idx - start_idx) |->
                             [cols |-> columns,
                              vals |-> row_values(df, start_idx + k)]]
       IN  \E ok \in BOOLEAN :
              /\ ok => InsertAcceptable(df)
              /\ log' = Append(log, [op |-> "INSERT",
                                     outcome |-> IF ok THEN "ok" ELSE "rejected",
                                     first |-> start_idx + 1, last |-> end_idx])
              /\ IF ok
                 THEN /\ table' = [table EXCEPT !.rows = @ \o data_values]
                      /\ start_idx' = start_idx + batch_size
                      /\ UNCHANGED <<pc, result>>
                 ELSE /\ table' = [table EXCEPT !.rows =
                                        @ \o rows_of_failed_batch(data_values)]
                      /\ Except("INSERT")
                      /\ UNCHANGED start_idx
    /\ UNCHANGED <<data_frame, df, connection, existing_columns, col_i,
                   table0, runs>>
    /\ UNCHANGED flatten_vars

\* Lines 181-183: close the cursor and the connection, return the success
\* message.
close ==
    /\ pc = "insert"
    /\ start_idx >= total_rows(df)
    /\ connection' = "closed"
    /\ result' = <<success_glyph, "Successfully inserted", total_rows(df), "rows into table">>
    /\ pc' = "returned"
    /\ UNCHANGED <<table, data_frame, df, existing_columns, col_i, start_idx,
                   log, table0, runs>>
    /\ UNCHANGED flatten_vars

Run ==
    \/ create_mysql_connection
    \/ show_tables
    \/ create_table
    \/ describe
    \/ alter_table
    \/ insert_batch
    \/ close

Next ==
    \/ \E k \in 1..Len(Datasets) : Begin("schema", k)
    \/ Run

Spec == Init /\ [][Next]_vars

NextBatch ==
    \/ \E n \in BatchRowCounts : Begin("batch", n)
    \/ Run

SpecBatch == Init /\ [][NextBatch]_vars

\* ------------------------------------------------------------------------
\* get_mysql_type on its own: the column is drawn from the integer columns
\* of at most MaxLen cells over the values around the thresholds.
\* ------------------------------------------------------------------------
MaxLen == 2

IntSamples ==
    { W(0, 0), W(0, 127), W(0, 128), W(0, 32767), W(0, 32768),
      W(127, 65535), W(128, 0), W(32767, 65535), W(32768, 0),
      W(-1, 65407), W(-1, 65336), W(-32769, 65535) }

IntColumns(dtype) ==
    LET cells == IF dtype = "Int64" THEN IntSamples \cup {NA} ELSE IntSamples
    IN  UNION {[1..n -> cells] : n \in 0..MaxLen}

InitType ==
    /\ table = NoTable
    /\ pc = "type"
    /\ data_frame = << >>
    /\ \E dtype \in {"int64", "Int64"} :
          \E values \in IntColumns(dtype) :
              df = << Column(col_a, dtype, values) >>
    /\ connection = "none"
    /\ existing_columns = {}
    /\ col_i = 1
    /\ start_idx = 0
    /\ result = << >>
    /\ log = << >>
    /\ table0 = NoTable
    /\ runs = 0
    /\ NoJson

\* mysql_type = get_mysql_type(df[col].dtype, df[col]) (lines 131, 153).
map_type ==
    /\ pc = "type"
    /\ result' = << get_mysql_type(df[1].dtype, df[1].values) >>
    /\ pc' = "typed"
    /\ UNCHANGED <<table, data_frame, df, connection, existing_columns, col_i,
                   start_idx, log, table0, runs>>
    /\ UNCHANGED flatten_vars

NextType == map_type

SpecType == InitType /\ [][NextType]_vars

\* ------------------------------------------------------------------------
\* safe_convert_for_mysql followed by get_mysql_type on one column: the
\* column is a float64 column of at most MaxLen cells over whole,
\* fractional, huge and missing values, or a column of up to MaxMissing
\* missing cells of another dtype.
\* ------------------------------------------------------------------------
MaxMissing == 3

FloatSamples ==
    { <<"float", 0, 0, 0>>, <<"float", 0, 2, 0>>, <<"float", 0, 2, 5>>,
      <<"float", 0, 128, 0>>, <<"float", -1, 65533, 0>>,
      <<"float", 32768, 0, 0>>, <<"floatE", 19>>, <<"floatE", 300>>, NA }

InferColumns ==
    {Column(col_a, "float64", values) :
        values \in UNION {[1..n -> FloatSamples] : n \in 0..MaxLen}}
    \cup {Column(col_a, dtype, [i \in 1..n |-> NA]) :
            dtype \in {"object", "Int64", "datetime64"}, n \in 1..MaxMissing}

InitInfer ==
    /\ table = NoTable
    /\ pc = "raw"
    /\ \E column \in InferColumns : data_frame = <<column>>
    /\ df = << >>
    /\ connection = "none"
    /\ existing_columns = {}
    /\ col_i = 1
    /\ start_idx = 0
    /\ result = << >>
    /\ log = << >>
    /\ table0 = NoTable
    /\ runs = 0
    /\ NoJson

\* df = safe_convert_for_mysql(df) (line 118).
coerce ==
    /\ pc = "raw"
    /\ df' = safe_convert_for_mysql(data_frame)
    /\ pc' = "type"
    /\ UNCHANGED <<table, data_frame, connection, existing_columns, col_i,
                   start_idx, result, log, table0, runs>>
    /\ UNCHANGED flatten_vars

NextInfer == coerce \/ map_type

SpecInfer == InitInfer /\ [][NextInfer]_vars

\* ------------------------------------------------------------------------
\* The sanitization of a column name on its own: the name is drawn from
\* the names of at most MaxNameLen characters over NameChars, and is
\* sanitized, and the outcome sanitized again.
\* ------------------------------------------------------------------------
MaxNameLen == 3

NameChars == {"a", " ", "-", ".", "_"}

Names == UNION {[1..n -> NameChars] : n \in 0..MaxNameLen}

InitName ==
    /\ table = NoTable
    /\ pc = "name"
    /\ \E name \in Names : data_frame = << Column(name, "int64", << >>) >>
    /\ df = << >>
    /\ connection = "none"
    /\ existing_columns = {}
    /\ col_i = 1
    /\ start_idx = 0
    /\ result = << >>
    /\ log = << >>
    /\ table0 = NoTable
    /\ runs = 0
    /\ NoJson

\* col_name = col.replace(...) on the column's name (lines 132, 151, 170).
sanitize_name ==
    /\ pc = "name"
    /\ result' = << sanitize(data_frame[1].name) >>
    /\ pc' = "once"
    /\ UNCHANGED <<table, data_frame, df, connection, existing_columns, col_i,
                   start_idx, log, table0, runs>>
    /\ UNCHANGED flatten_vars

\* The same expression on the identifier it produced, as for a column that
\* a later dataset names by its stored identifier.
sanitize_again ==
    /\ pc = "once"
    /\ result' = Append(result, sanitize(result[1]))
    /\ pc' = "twice"
    /\ UNCHANGED <<table, data_frame, df, connection, existing_columns, col_i,
                   start_idx, log, table0, runs>>
    /\ UNCHANGED flatten_vars

NextName == sanitize_name \/ sanitize_again

SpecName == InitName /\ [][NextName]_vars

\* ------------------------------------------------------------------------
\* flatten_json_to_dataframe.  A JSON object is the sequence of its
\* <<key, value>> pairs in document order; a nested object is the value
\* <<"dict", pairs>>.  The keys of the document are strings, the keys of a
\* flat record (the column names) are sequences of characters.
\* ------------------------------------------------------------------------
\* key in d
has(d, key) == \E i \in 1..Len(d) : d[i][1] = key

\* d.get(key, default)
get(d, key, default) ==
    IF has(d, key) THEN d[CHOOSE i \in 1..Len(d) : d[i][1] = key][2]
    ELSE default

name_date == <<"d", "a", "t", "e">>

name_product_name ==
    <<"p", "r", "o", "d", "u", "c", "t", "_", "n", "a", "m", "e">>

name_category == <<"c", "a", "t", "e", "g", "o", "r", "y">>

name_brand == <<"b", "r", "a", "n", "d">>

name_days_on_shelf ==
    <<"d", "a", "y", "s", "_", "o", "n", "_", "s", "h", "e", "l", "f">>

\* f'price_{unit}'
price_(unit) == <<"p", "r", "i", "c", "e", "_">> \o unit

\* The five entries every flat record has (lines 199-205).
base_record(date_key, product) ==
    << <<name_date, date_key>>,
       <<name_product_name, get(product, "Product name", text("", 0))>>,
       <<name_category, get(product, "Category", text("", 0))>>,
       <<name_brand, get(product, "Brand", text("", 0))>>,
       <<name_days_on_shelf, get(product, "Days on Shelf", W(0, 0))>> >>

\* The entries added for a Price that is an object (lines 207-209).
price_entries(product) ==
    IF has(product, "Price") /\ get(product, "Price", NA)[1] = "dict"
    THEN LET items == get(product, "Price", NA)[2]
         IN  [i \in 1..Len(items) |-> <<price_(items[i][1]), items[i][2]>>]
    ELSE << >>

\* flat_record with only the entries whose key the product has.
RECURSIVE present_entries(_, _)
present_entries(record, product) ==
    IF Len(record) = 0 THEN << >>
    ELSE (IF record[1][1] = name_date
             \/ (record[1][1] = name_product_name /\ has(product, "Product name"))
             \/ (record[1][1] = name_category /\ has(product, "Category"))
             \/ (record[1][1] = name_brand /\ has(product, "Brand"))
             \/ (record[1][1] = name_days_on_shelf /\ has(product, "Days on Shelf"))
          THEN <<record[1]>> ELSE << >>)
         \o present_entries(Tail(record), product)

flat_record_without_defaults(date_key, product) ==
    present_entries(base_record(date_key, product), product)
    \o price_entries(product)

\* flat_record when all_records.append is reached (lines 199-209).
flat_record(date_key, product) ==
    base_record(date_key, product) \o price_entries(product)

\* The keys of a record that are not among columns, appended to columns.
RECURSIVE add_keys(_, _)
add_keys(columns, record) ==
    IF Len(record) = 0 THEN columns
    ELSE add_keys(IF \E c \in 1..Len(columns) : columns[c] = record[1][1]
                  THEN columns ELSE Append(columns, record[1][1]),
                  Tail(record))

\* The keys of the first n records, in order of first appearance.
RECURSIVE columns_of(_, _)
columns_of(records, n) ==
    IF n = 0 THEN << >> ELSE add_keys(columns_of(records, n - 1), records[n])

\* pd.DataFrame(all_records) (line 213): one row per record, one column
\* per key in order of first appearance, a missing cell where a record
\* lacks the key.  The dtypes pandas infers are left out.
DataFrame(records) ==
    LET columns == columns_of(records, Len(records))
    IN  [columns |-> columns,
         rows |-> [r \in 1..Len(records) |->
                     [c \in 1..Len(columns) |-> get(records[r], columns[c], NA)]]]

\* Bound of the documents: products per date key.
MaxProducts == 2

\* The date keys of the documents, in document order.
DateKeys == <<"2024-01-01", "2024-01-02">>

Milk ==
    << <<"Product name", text("Milk", 4)>>, <<"Category", text("Dairy", 5)>>,
       <<"Price", <<"dict", << << <<"L">>, <<"float", 0, 2, 5>> >> >> >> >> >>

Bread ==
    << <<"Product name", text("Bread", 5)>>, <<"Category", text("Bakery", 6)>>,
       <<"Brand", text("Acme", 4)>>, <<"Days on Shelf", W(0, 3)>>,
       <<"Price", <<"dict", << << <<"k", "g">>, <<"float", 0, 4, 0>> >>,
                               << <<"L">>, <<"float", 0, 1, 5>> >> >> >> >> >>

Salt == << <<"Product name", text("Salt", 4)>> >>

Tea == << <<"Product name", text("Tea", 3)>>, <<"Price", <<"float", 0, 3, 0>> >> >>

Products == {Milk, Bread, Salt, Tea}

ProductLists == UNION {[1..n -> Products] : n \in 0..MaxProducts}

\* The documents: the first n date keys for some n, each with a list of
\* products.
JsonDocuments ==
    UNION {{[d \in 1..n |-> <<DateKeys[d], lists[d]>>] :
              lists \in [1..n -> ProductLists]} : n \in 0..Len(DateKeys)}

\* The document of the example.
MilkDocument == << <<"2024-01-01", <<Milk>>>> >>

InitFlatten ==
    /\ table = NoTable
    /\ pc = "flatten"
    /\ data_frame = << >>
    /\ df = << >>
    /\ connection = "none"
    /\ existing_columns = {}
    /\ col_i = 1
    /\ start_idx = 0
    /\ result = << >>
    /\ log = << >>
    /\ table0 = NoTable
    /\ runs = 0
    /\ data \in JsonDocuments
    /\ all_records = << >>
    /\ date_i = 1
    /\ product_i = 1
    /\ flattened = << >>

\* Lines 197-211: one step of the two loops: the next product of the
\* current date key, or the next date key when its products are done.
next_product ==
    /\ pc = "flatten"
    /\ date_i <= Len(data)
    /\ LET date_key == data[date_i][1]
           products == data[date_i][2]
       IN  IF product_i <= Len(products)
           THEN /\ all_records' =
                     Append(all_records, flat_record(date_key, products[product_i]))
                /\ product_i' = product_i + 1
                /\ UNCHANGED date_i
           ELSE /\ date_i' = date_i + 1
                /\ product_i' = 1
                /\ UNCHANGED all_records
    /\ UNCHANGED <<table, pc, data_frame, df, connection, existing_columns,
                   col_i, start_idx, result, log, table0, runs, data, flattened>>

\* Line 213: return pd.DataFrame(all_records).
return_dataframe ==
    /\ pc = "flatten"
    /\ date_i > Len(data)
    /\ flattened' = DataFrame(all_records)
    /\ pc' = "flattened"
    /\ UNCHANGED <<table, data_frame, df, connection, existing_columns,
                   col_i, start_idx, result, log, table0, runs, data,
                   all_records, date_i, product_i>>

NextFlatten == next_product \/ return_dataframe

SpecFlatten == InitFlatten /\ [][NextFlatten]_vars

\* ------------------------------------------------------------------------
\* Properties
\* ------------------------------------------------------------------------
IsPrefix(s, t) == Len(s) <= Len(t) /\ \A i \in 1..Len(s) : s[i] = t[i]

\* The run has returned the success message.
Succeeded == pc = "returned" /\ Len(result) > 0 /\ result[1] = success_glyph

\* The run has returned something else.
Failed == pc = "returned" /\ ~Succeeded

\* The first n rows of the frame, as the INSERT statement binds them.
RowsOf(frame, n) ==
    [i \in 1..n |-> [cols |-> insert_columns(frame), vals |-> row_values(frame, i)]]

\* The statements of the given kind in a log, in order.
RECURSIVE Statements(_, _)
Statements(entries, op) ==
    IF Len(entries) = 0 THEN << >>
    ELSE (IF entries[1].op = op THEN <<entries[1]>> ELSE << >>)
         \o Statements(Tail(entries), op)

\* The batch inserts this run has sent, in order.
Inserts == Statements(log, "INSERT")

\* The column appends this run has sent, in order.
Alters == Statements(log, "ALTER")

IssuedAppends == [k \in 1..Len(Alters) |-> Alters[k].columns[1]]

\* The columns of the appends that the store did not reject, in order.
RECURSIVE Applied(_)
Applied(entries) ==
    IF Len(entries) = 0 THEN << >>
    ELSE (IF entries[1].outcome # "rejected" THEN <<entries[1].columns[1]>> ELSE << >>)
         \o Applied(Tail(entries))

AppliedAppends == Applied(Alters)

\* The columns of a list whose name is not in a set, in order.
RECURSIVE Missing(_, _)
Missing(columns, names) ==
    IF Len(columns) = 0 THEN << >>
    ELSE (IF columns[1].name \notin names THEN <<columns[1]>> ELSE << >>)
         \o Missing(Tail(columns), names)

\* The dataset columns whose sanitized identifier the table did not have
\* when the run started, with their mapped types, in dataset order.
ExpectedAppends ==
    Missing(column_definitions(df),
            {table0.columns[k].name : k \in 1..Len(table0.columns)})

\* C1: a run over N rows sends batch k with the rows (k-1)*B+1 .. min(k*B, N),
\* so every batch has at most B rows and all but the last have B; the rows
\* in the table are the rows before the run followed by the dataset's rows
\* up to the last accepted batch, in dataset order; a run that succeeds has
\* sent ceil(N/B) batches and stored all N rows once, and for N = 2500 the
\* batches have 1000, 1000 and 500 rows.
C1_Batches ==
    pc \in {"insert", "returned"} =>
        LET b == Inserts
            N == total_rows(df)
            B == batch_size
            size(k) == b[k].last - b[k].first + 1
            stored == IF Len(b) = 0 THEN 0
                      ELSE IF b[Len(b)].outcome = "ok" THEN b[Len(b)].last
                      ELSE b[Len(b)].first - 1
        IN  /\ \A k \in 1..Len(b) :
                  /\ b[k].first = (k - 1) * B + 1
                  /\ b[k].last = IF k * B < N THEN k * B ELSE N
                  /\ size(k) >= 1 /\ size(k) <= B
                  /\ k < Len(b) => size(k) = B
            /\ table.rows = table0.rows \o RowsOf(df, stored)
            /\ Succeeded =>
                  /\ Len(b) = (N + B - 1) \div B
                  /\ stored = N
                  /\ N = 2500 =>
                        [k \in 1..Len(b) |-> size(k)] = <<1000, 1000, 500>>

C1_Witness ==
    /\ Succeeded
    /\ total_rows(df) = 2500
    /\ Len(Inserts) = 3
    /\ Len(table.rows) = Len(table0.rows) + 2500

\* C2: a batch that the store rejects is the last statement of the run: the
\* run has returned a failure, the table holds the rows it had before the
\* run and the rows of the batches before the rejected one, and nothing of
\* the rejected batch or of a later one; at every point of a run the rows
\* it has stored are the first m whole batches of the dataset for some m.
C2_PartialFailure ==
    pc \in {"connect", "show", "create", "describe", "alter", "insert", "returned"} =>
        LET b == Inserts
            N == total_rows(df)
            B == batch_size
            upto(m) == IF m * B < N THEN m * B ELSE N
        IN  /\ \A k \in 1..Len(b) :
                  b[k].outcome # "ok" =>
                      /\ k = Len(b)
                      /\ log[Len(log)] = b[k]
                      /\ Failed
                      /\ table.rows = table0.rows \o RowsOf(df, (k - 1) * B)
            /\ \E m \in 0..Len(b) :
                  table.rows = table0.rows \o RowsOf(df, upto(m))

C2_Witness ==
    /\ total_rows(df) = 2500
    /\ Len(Inserts) = 2
    /\ Inserts[2].outcome = "rejected"
    /\ Failed
    /\ Len(table.rows) = Len(table0.rows) + 1000

\* C3: a run that has acquired a connection has closed it when it returns.
C3_ConnectionReleased == pc = "returned" => connection # "open"

\* C4: the string a run returns begins with the success glyph or with the
\* failure glyph.
C4_ResultHasGlyph ==
    pc = "returned" =>
        Len(result) > 0 /\ result[1] \in {success_glyph, failure_glyph}

\* C5: in a run against a table that existed when the run started, the
\* column appends sent to the store are, in order, the dataset columns
\* whose sanitized identifier the table did not have, each with its mapped
\* type; the table's columns are the old ones followed by the appends the
\* store applied; a run that succeeds has appended all of them (none when
\* the dataset brings no new identifier) and then all the dataset's rows.
C5_AppendsMissingColumns ==
    (table0.exists /\ pc \in {"connect", "show", "describe", "alter", "insert", "returned"}) =>
        /\ IsPrefix(IssuedAppends, ExpectedAppends)
        /\ table.columns = table0.columns \o AppliedAppends
        /\ Succeeded =>
              /\ IssuedAppends = ExpectedAppends
              /\ AppliedAppends = ExpectedAppends
              /\ table.rows = table0.rows \o RowsOf(df, total_rows(df))

C5_Witness ==
    /\ Succeeded
    /\ table0.exists
    /\ Len(ExpectedAppends) = 1
    /\ table.columns = table0.columns \o ExpectedAppends
    /\ total_rows(df) > 0
    /\ Len(table.rows) = Len(table0.rows) + total_rows(df)

\* C6: no step removes a column from the table or changes the type of a
\* column the table has: every (name, type) of the table is still in the
\* table after the step, and the table is never dropped.
C6_ColumnsNeverDroppedOrRetyped ==
    [][table.exists =>
          /\ table'.exists
          /\ Len(table'.columns) >= Len(table.columns)
          /\ \A k \in 1..Len(table.columns) :
                \E j \in 1..Len(table'.columns) :
                    table'.columns[j] = table.columns[k]]_vars

\* A run has succeeded against a table in which a dataset column of the
\* same identifier has another type than the one the dataset maps to.
C6_Witness ==
    /\ Succeeded
    /\ table0.exists
    /\ \E c \in 1..Len(df) :
          \E k \in 1..Len(table.columns) :
              /\ table.columns[k].name = sanitize(df[c].name)
              /\ table.columns[k].type # get_mysql_type(df[c].dtype, df[c].values)

\* C7: the table's first column is id, its last column is created_at.
C7_IdFirstCreatedAtLast ==
    table.exists =>
        /\ table.columns[1].name = id
        /\ table.columns[Len(table.columns)].name = created_at

\* C8: a run that returns without a connection has returned a failure, has
\* sent no statement to the store, and has left the table as it was.
C8_NoConnectionNoChange ==
    (pc = "returned" /\ connection = "none") =>
        /\ Failed
        /\ log = << >>
        /\ table = table0

C8_Witness ==
    /\ pc = "returned"
    /\ connection = "none"
    /\ table0.exists
    /\ Len(table0.rows) > 0
    /\ Len(df) > 0
    /\ total_rows(df) > 0

\* C9: a create-table or append-column statement that the store rejects (or
\* whose commit fails) is the last statement of the run: the run has
\* returned a failure and has sent no batch insert, the table's rows are
\* unchanged; after a rejected append the table has its old columns and the
\* columns appended before the rejection, after a rejected create there is
\* still no table.
C9_SchemaFailure ==
    \A k \in 1..Len(log) :
        (log[k].op \in {"CREATE", "ALTER"} /\ log[k].outcome # "ok") =>
            /\ k = Len(log)
            /\ Failed
            /\ Inserts = << >>
            /\ table.rows = table0.rows
            /\ table.columns = table0.columns
                 \o (IF log[k].op = "CREATE" /\ log[k].outcome # "rejected"
                     THEN create_table_columns(df) ELSE << >>)
                 \o AppliedAppends

C9_Witness ==
    /\ Len(Alters) >= 2
    /\ Alters[Len(Alters)].outcome = "rejected"
    /\ Alters[1].outcome = "ok"
    /\ Len(table.columns) > Len(table0.columns)
    /\ Failed

\* The largest |v| over the present values (at least one).
MaxMagnitude(values) ==
    LET present == dropna(values)
        mags == [i \in 1..Len(present) |-> IntAbs(present[i])]
    IN  IntMaxOver(mags, 1, Len(mags))

\* The narrowest integer type for the magnitude m.
WidthFor(m) ==
    IF IntLeq(m, W(0, 127)) THEN "TINYINT"
    ELSE IF IntLeq(m, W(0, 32767)) THEN "SMALLINT"
    ELSE IF IntLeq(m, W(127, 65535)) THEN "MEDIUMINT"
    ELSE IF IntLeq(m, W(32767, 65535)) THEN "INT"
    ELSE "BIGINT"

\* C10: for an integer column with values of any sign, get_mysql_type
\* returns the width that the thresholds 127, 32767, 8388607, 2147483647
\* give for the largest magnitude of the column; an empty column gets
\* TINYINT.
C10_WidthByMagnitude ==
    (pc = "typed" /\ (Len(df[1].values) = 0 \/ Len(dropna(df[1].values)) > 0)) =>
        result[1] = IF Len(df[1].values) = 0 THEN "TINYINT"
                    ELSE WidthFor(MaxMagnitude(df[1].values))

\* The columns of the argument that the run keeps, before conversion: the
\* c-th of them becomes df[c].
kept_columns == drop_unnamed(data_frame)

\* The columns that the description of safe_convert_for_mysql calls
\* date-time text: a datetime64 column, or an object column in which at
\* least one value parses under the format, with a present value.
IsDateTimeText(column) ==
    /\ Len(dropna(column.values)) > 0
    /\ \/ column.dtype = "datetime64"
       \/ /\ column.dtype = "object"
          /\ Len(dropna(to_datetime(column.values))) > 0

\* C11: every create-table and append-column statement of a run gives the
\* type DATETIME to each column that the dataset holds as date-time text (a
\* datetime64 column, or an object column with a value that parses as
\* YYYY-MM-DD HH:MM:SS).
C11_DateTimeTextIsDatetime ==
    \A k \in 1..Len(log) :
        /\ log[k].op = "CREATE" =>
              \A c \in 1..Len(log[k].columns) :
                  IsDateTimeText(kept_columns[c]) =>
                      log[k].columns[c].type = "DATETIME"
        /\ log[k].op = "ALTER" =>
              (IsDateTimeText(kept_columns[log[k].col]) =>
                  log[k].columns[1].type = "DATETIME")

IntegerWidths == {"TINYINT", "SMALLINT", "MEDIUMINT", "INT", "BIGINT"}

\* Every cell of the column is missing, and there is at least one cell.
AllMissing(column) ==
    Len(column.values) > 0 /\ Len(dropna(column.values)) = 0

\* C12: a column whose cells are all missing goes through the coercer and
\* the mapper without an exception and is mapped to VARCHAR(255).
C12_AllMissingIsVarchar ==
    (pc = "typed" /\ AllMissing(data_frame[1])) => result[1] = "VARCHAR(255)"

\* The column is a float64 column with a present value, and every present
\* value is a whole number.
AllIntegral(column) ==
    LET present == dropna(column.values)
    IN  /\ column.dtype = "float64"
        /\ Len(present) > 0
        /\ \A i \in 1..Len(present) : is_integer(present[i])

\* C13: a float64 column whose present values are all whole numbers, of
\* any magnitude and with or without missing cells, is mapped to one of
\* the integer widths.
C13_IntegralFloatIsInteger ==
    (pc = "typed" /\ AllIntegral(data_frame[1])) => result[1] \in IntegerWidths

\* C14: sanitizing a sanitized name gives the sanitized name; the sanitized
\* name has the length of the name, and no space, dash or dot.
C14_SanitizeIdempotent ==
    /\ pc \in {"once", "twice"} =>
          /\ Len(result[1]) = Len(data_frame[1].name)
          /\ \A i \in 1..Len(result[1]) : result[1][i] \notin {" ", "-", "."}
    /\ pc = "twice" => result[2] = result[1]

C14_Witness ==
    /\ pc = "twice"
    /\ data_frame[1].name = <<" ", "-", ".">>
    /\ result = << <<"_", "_", "_">>, <<"_", "_", "_">> >>

\* The schema statements this run has sent, in order.
SchemaStatements == Statements(log, "CREATE") \o Statements(log, "ALTER")

\* C15: no create-table statement lists, and no append-column statement
\* names, a dataset column whose sanitized name is id or created_at.
C15_ReservedNeverEmitted ==
    \A k \in 1..Len(SchemaStatements) :
        \A c \in 1..Len(SchemaStatements[k].columns) :
            SchemaStatements[k].columns[c].name \notin {id, created_at}

\* The <<date key, product record>> pairs of a document, in document order.
RECURSIVE PairsOf(_)
PairsOf(doc) ==
    IF Len(doc) = 0 THEN << >>
    ELSE [i \in 1..Len(doc[1][2]) |-> <<doc[1][1], doc[1][2][i]>>]
         \o PairsOf(Tail(doc))

\* The cell of row r of the returned frame in the column of the given name.
Cell(r, name) ==
    flattened.rows[r][CHOOSE c \in 1..Len(flattened.columns) :
                          flattened.columns[c] = name]

\* The returned frame has one row per product record of every date key, in
\* document order, and the row carries the record's date key.
OneRowPerProduct ==
    LET pairs == PairsOf(data)
    IN  /\ Len(flattened.rows) = Len(pairs)
        /\ \A r \in 1..Len(pairs) :
              /\ Len(flattened.rows[r]) = Len(flattened.columns)
              /\ Cell(r, name_date) = pairs[r][1]

\* C16 as stated: one row per product record of every date key, and the
\* document of the example gives the one row date=2024-01-01,
\* product_name=Milk, category=Dairy, price_L=2.5 and no other column.
C16_FlattenExample ==
    pc = "flattened" =>
        /\ OneRowPerProduct
        /\ data = MilkDocument =>
              flattened =
                [columns |-> <<name_date, name_product_name, name_category,
                               price_(<<"L">>)>>,
                 rows |-> << <<"2024-01-01", text("Milk", 4), text("Dairy", 5),
                               <<"float", 0, 2, 5>> >> >>]

\* C16 as amended: one row per product record of every date key, and the
\* document of the example gives the one row date=2024-01-01,
\* product_name=Milk, category=Dairy, brand='' (the empty string),
\* days_on_shelf=0, price_L=2.5, the columns in this order.
C16_FlattenExampleWithDefaults ==
    pc = "flattened" =>
        /\ OneRowPerProduct
        /\ data = MilkDocument =>
              flattened =
                [columns |-> <<name_date, name_product_name, name_category,
                               name_brand, name_days_on_shelf, price_(<<"L">>)>>,
                 rows |-> << <<"2024-01-01", text("Milk", 4), text("Dairy", 5),
                               text("", 0), W(0, 0), <<"float", 0, 2, 5>> >> >>]

C16_Witness ==
    /\ pc = "flattened"
    /\ data = MilkDocument
    /\ Len(flattened.rows) = 1
    /\ Cell(1, price_(<<"L">>)) = <<"float", 0, 2, 5>>

\* The conversion of a kept column of the argument raises.
Raised(c) == conversion_raises(kept_columns[c])

\* C17: in a run in which the conversion of a column raises, that column
\* is an object column whose every cell, the missing ones included, is the
\* text of the cell it was; every other column, before or after it, has
\* the outcome of its own conversion; and the run goes on: when it returns
\* a failure, the connection was refused or the store rejected its last
\* statement.
C17_RaisingColumnFallsBackToText ==
    (pc \in {"connect", "show", "create", "describe", "alter", "insert", "returned"}
       /\ \E c \in 1..Len(kept_columns) : Raised(c)) =>
        /\ Len(df) = Len(kept_columns)
        /\ \A c \in 1..Len(df) :
              IF Raised(c)
              THEN /\ df[c].name = kept_columns[c].name
                   /\ df[c].dtype = "object"
                   /\ Len(df[c].values) = Len(kept_columns[c].values)
                   /\ \A i \in 1..Len(df[c].values) :
                         /\ df[c].values[i][1] = "str"
                         /\ df[c].values[i] = str(kept_columns[c].values[i])
              ELSE df[c] = convert_column(kept_columns[c])
        /\ Failed =>
              \/ connection = "none" /\ log = << >>
              \/ log # << >> /\ log[Len(log)].outcome # "ok"

\* A run has succeeded on a dataset whose second column raised: the first
\* column is the nullable integer column it was converted to, the third
\* the rendered timestamps, and the rows are in the table.
C17_Witness ==
    /\ Succeeded
    /\ Len(df) = 3
    /\ Raised(2)
    /\ df[1].dtype = "Int64"
    /\ df[2].values = << <<"str", <<"repr", <<"floatE", 19>>>>, 5>>,
                         <<"str", <<"lit", "nan">>, 3>> >>
    /\ df[3].values = << <<"str", <<"lit", "2024-01-01 10:00:00">>, 19>>, NA >>
    /\ Len(table.rows) = Len(table0.rows) + 2
    /\ table.rows[Len(table.rows)].vals[2] = <<"str", <<"lit", "nan">>, 3>>

\* C18: the stages of a run happen in order: a statement is sent to the
\* store only on an acquired connection; no create-table or append-column
\* statement follows a batch insert; every create-table or append-column
\* statement sent before a batch insert has been committed, and so has
\* every one of the run when the batch stage is reached.
C18_StagesInOrder ==
    /\ log # << >> => connection \in {"open", "closed"}
    /\ \A j, k \in 1..Len(log) :
          (j < k /\ log[j].op \in {"CREATE", "ALTER"} /\ log[k].op = "INSERT") =>
              log[j].outcome = "ok"
    /\ \A j, k \in 1..Len(log) :
          (j < k /\ log[j].op = "INSERT") => log[k].op = "INSERT"
    /\ pc = "insert" =>
          \A k \in 1..Len(SchemaStatements) : SchemaStatements[k].outcome = "ok"

\* A run has appended two columns and then inserted its rows.
C18_Witness ==
    /\ Succeeded
    /\ Len(Alters) = 2
    /\ Len(Inserts) = 1
    /\ log[Len(log)].op = "INSERT"
    /\ log[Len(log) - 1].op = "ALTER"

\* C19: within one run no identifier is submitted for creation twice: the
\* column list of a create-table statement names no identifier twice, and
\* no two append-column statements name the same identifier.
C19_NoIdentifierSubmittedTwice ==
    /\ \A k \in 1..Len(log) :
          log[k].op = "CREATE" => NoDuplicates(ColumnNames(log[k].columns))
    /\ \A j, k \in 1..Len(Alters) :
          Alters[j].columns[1].name = Alters[k].columns[1].name => j = k

====
